---- MODULE Spec2Model ----
(***************************************************************************)
(* The log detection engine of log-reporter: the Issue record, the         *)
(* PuertsExceptionDetector state machine, and the scan loop of             *)
(* LogScanner.scanLogContent with its single activatedIssueDetector slot.  *)
(* Text is modelled as sequences of one-character strings so that          *)
(* indexOf / substring / split are computed as the code computes them.     *)
(***************************************************************************)
EXTENDS Integers, Sequences, FiniteSets, TLC

(***************************************************************************)
(* Bounds of the model.                                                    *)
(***************************************************************************)
\* registries of 1..MaxDetectors detector instances are explored
MaxDetectors == 2
\* scanLogContent is called at most MaxScans times on one scanner
MaxScans == 2
\* all contents scanned by one scanner hold at most MaxTotalLines lines together
MaxTotalLines == 4

\* resolveIssue calls made on one ProblemResolver, direct and from batches
MaxResolves == 3

\* lengths of the arrays passed to generateReport
MaxReportIssues == 2
MaxReportSolutions == 2

\* loadConfig calls made on one ConfigManager
MaxLoads == 2

(***************************************************************************)
(* Program constants.                                                      *)
(***************************************************************************)
PUERTS_ERROR_KEYWORD ==
    <<"P","u","e","r","t","s",":"," ","E","r","r","o","r",":">>
PUERTS_DEMO_PTR ==
    <<"(","0","x","0","x","3","0","0","b","0","8","e","6","8",")">>
PUERTS_STACK_KEYWORD ==
    <<" "," "," "," ","a","t"," ">>
\* the separator of content.split('\n')
NL == "\n"

(***************************************************************************)
(* The log lines the scans draw their content from.                        *)
(***************************************************************************)
\* "ok"
PlainLine ==
    <<"o","k">>
\* "a Puerts: Error:(0x0x300b08e68): ea"
StartLine ==
    <<"a"," ","P","u","e","r","t","s",":"," ","E","r","r","o","r",":",
      "(","0","x","0","x","3","0","0","b","0","8","e","6","8",")",":"," ","e","a">>
\* "Puerts: Error:(0x0x300b08e68): e0"   (keyword at index 0)
KeywordFirstLine ==
    <<"P","u","e","r","t","s",":"," ","E","r","r","o","r",":",
      "(","0","x","0","x","3","0","0","b","0","8","e","6","8",")",":"," ","e","0">>
\* "    at f.g"
StackLine ==
    <<" "," "," "," ","a","t"," ","f",".","g">>
\* "c Puerts: Error:(0x0x300b08e68): ec    at m"
StartStackLine ==
    <<"c"," ","P","u","e","r","t","s",":"," ","E","r","r","o","r",":",
      "(","0","x","0","x","3","0","0","b","0","8","e","6","8",")",":"," ","e","c",
      " "," "," "," ","a","t"," ","m">>
\* "d Puerts: Error:"   (shorter than the message offset)
ShortStartLine ==
    <<"d"," ","P","u","e","r","t","s",":"," ","E","r","r","o","r",":">>

\* one content draws its lines from one of these pools
BlockPool ==
    {PlainLine, StartLine, StackLine, StartStackLine}
MarkerPool ==
    {KeywordFirstLine, ShortStartLine, StackLine}
LinePools ==
    {BlockPool, MarkerPool}

(***************************************************************************)
(* String primitives of the runtime, on character sequences.               *)
(***************************************************************************)
\* String.prototype.indexOf: 0-based index of the first occurrence, or -1
IndexOf(s, kw) ==
    LET hits == {k \in 0..(Len(s) - Len(kw)) : SubSeq(s, k + 1, k + Len(kw)) = kw}
    IN  IF hits = {} THEN -1 ELSE CHOOSE k \in hits : \A j \in hits : k <= j

\* String.prototype.substring(start): start is clamped to [0, length]
Substring(s, start) ==
    LET b == IF start < 0 THEN 0 ELSE IF start > Len(s) THEN Len(s) ELSE start
    IN  SubSeq(s, b + 1, Len(s))

\* String.prototype.split('\n'): always at least one element
RECURSIVE Split(_)
Split(content) ==
    LET nl == IndexOf(content, <<NL>>)
    IN  IF nl = -1
        THEN <<content>>
        ELSE <<SubSeq(content, 1, nl)>> \o Split(SubSeq(content, nl + 2, Len(content)))

\* the content of a log source whose lines are ls, joined by newlines
RECURSIVE Join(_)
Join(ls) ==
    IF ls = <<>> THEN <<>>
    ELSE IF Len(ls) = 1 THEN ls[1]
    ELSE ls[1] \o <<NL>> \o Join(Tail(ls))

(***************************************************************************)
(* The state: one LogScanner, the Issue objects, and the scanLogContent     *)
(* call in progress on the scanner.                                        *)
(***************************************************************************)
VARIABLES
    issueDetectors,          \* this.issueDetectors: the registry, in order
    activatedIssueDetector,  \* this.activatedIssueDetector: registry index, or Null
    heap,                    \* every Issue object created so far, by identifier
    pc,                      \* "idle", "loop" (inside scanLogContent) or "raised"
    lines,                   \* scanLogContent: const lines
    i,                       \* scanLogContent: the loop cursor (0-based)
    issues,                  \* scanLogContent: const issues (identifiers)
    returned,                \* the value returned by each finished call, in order
    linesFed,                \* number of lines of all contents passed so far
    received,                \* history: per issue, the lines its owner received
    rawFrom,                 \* history: per issue, where each rawLogs entry came from
    owner,                   \* history: per issue, the detector that created it
    scanned,                 \* history: the lines of each scanLogContent call, in order
    lastCall,                \* the last call made by a direct caller, with its outcome
    files,                   \* the filePath argument of each scanLogFile call, in order
    solutions,               \* ProblemResolver.solutions: the Map, as a function
    config,                  \* ConfigManager.config: a JSON value, JNull before loading
    configFile,              \* the file at ConfigManager.configPath
    report                   \* generateReport: its arguments and issuesWithSolutions

scannerVars == <<issueDetectors, activatedIssueDetector, heap, pc, lines, i, issues,
                 returned, linesFed, received, rawFrom, owner, scanned, lastCall>>

collaboratorVars == <<files, solutions, config, configFile, report>>

vars == <<issueDetectors, activatedIssueDetector, heap, pc, lines, i, issues,
          returned, linesFed, received, rawFrom, owner, scanned, lastCall,
          files, solutions, config, configFile, report>>

\* the JSON value null
JNull == [kind |-> "null"]

\* no report has been generated
NoReport == [issues |-> <<>>, solutions |-> <<>>, done |-> FALSE, issuesWithSolutions |-> <<>>]

\* the collaborators of the scanner before any of them is used: no file
\* scanned, an empty solutions Map, a ConfigManager that has not loaded
CollaboratorsIdle ==
    /\ files = <<>>
    /\ solutions = <<>>
    /\ config = JNull
    /\ configFile = [kind |-> "missing"]
    /\ report = NoReport

(***************************************************************************)
(* Issue (models/Issue).                                                   *)
(***************************************************************************)
\* a severity table with the rows of Exception and of the default exchanged
getSeverityFromTypeSwapped(type) ==
    CASE type = "Crash" -> "critical"
      [] type = "Exception" -> "medium"
      [] OTHER -> "high"

getSeverityFromType(type) ==
    CASE type = "Crash" -> "critical"
      [] type = "Exception" -> "high"
      [] OTHER -> "medium"

\* a constructor whose line buffers are shared between the Issue objects: a new
\* issue starts with what the previous one accumulated
NewIssueSharedBuffers(id, type, message) ==
    [id |-> id, type |-> type, message |-> message,
     stackTrace |-> IF id > 1 THEN heap[id - 1].stackTrace ELSE <<>>,
     rawLogs |-> IF id > 1 THEN heap[id - 1].rawLogs ELSE <<>>,
     source |-> <<>>, severity |-> getSeverityFromType(type), typeSets |-> 0]

\* new Issue(type, message); the uuid is the next unused identifier.
\* typeSets is history: the number of setIssueType calls made on the object
NewIssue(id, type, message) ==
    [id |-> id, type |-> type, message |-> message, stackTrace |-> <<>>,
     rawLogs |-> <<>>, source |-> <<>>, severity |-> getSeverityFromType(type),
     typeSets |-> 0]

addLogLine(issue, line) ==
    [issue EXCEPT !.rawLogs = Append(@, line)]

addStacktraceLine(issue, stacktrace) ==
    [issue EXCEPT !.stackTrace = Append(@, stacktrace)]

\* Issue.setIssueType is called by the detector; its body is not in the sources
setIssueType(issue, type) ==
    [issue EXCEPT !.type = type, !.typeSets = @ + 1]

(***************************************************************************)
(* PuertsExceptionDetector (issue_detecter/IssueDetector).  A detector is  *)
(* [state, issue]: issue is the identifier of the owned Issue object in    *)
(* the heap, or NoIssue for undefined.  The heap is the sequence of all    *)
(* Issue objects created so far, indexed by identifier.                    *)
(***************************************************************************)
NoIssue == 0

NewDetector == [state |-> "None", issue |-> NoIssue]

\* the message offset without the two characters after the pointer token
getMessageFromFirstLogLineNoSkip(line) ==
    LET msgIndex == IndexOf(line, PUERTS_ERROR_KEYWORD) + Len(PUERTS_ERROR_KEYWORD)
                        + Len(PUERTS_DEMO_PTR)
    IN  Substring(line, msgIndex)

getMessageFromFirstLogLine(line) ==
    LET msgIndex == IndexOf(line, PUERTS_ERROR_KEYWORD) + Len(PUERTS_ERROR_KEYWORD)
                        + Len(PUERTS_DEMO_PTR) + 2
    IN  Substring(line, msgIndex)

\* an end test that no line passes: a block, once opened, never ends
isLogIndicateFinishedNever(line) == FALSE

isLogIndicateFinished(line) ==
    IndexOf(line, PUERTS_ERROR_KEYWORD) > 0

\* a start test that uses the index as a truth value: -1 is truthy, 0 is not
IsStartLineTruthy(line) ==
    IndexOf(line, PUERTS_ERROR_KEYWORD) # 0

\* the start test of receiveLine in state None
IsStartLine(line) ==
    IndexOf(line, PUERTS_ERROR_KEYWORD) > 0

\* the stack fragment kept from the triggering line
StartStackFragment(line, stackKeywordIndex) ==
    Substring(line, stackKeywordIndex)

\* the stack fragment kept from a line received while activated
ActiveStackFragment(line, stackKeywordIndex) ==
    Substring(line, stackKeywordIndex + Len(PUERTS_STACK_KEYWORD) + 1)

\* receiveLine in state None: the detector, the heap and the returned state
ReceiveLineNone(det, hp, line) ==
    IF IsStartLine(line)
    THEN LET id == Len(hp) + 1
             created == addLogLine(
                 NewIssue(id, "Error", getMessageFromFirstLogLine(line)), line)
             stackKeywordIndex == IndexOf(line, PUERTS_STACK_KEYWORD)
             issue == IF stackKeywordIndex >= 0
                      THEN addStacktraceLine(setIssueType(created, "Exception"),
                               StartStackFragment(line, stackKeywordIndex))
                      ELSE created
         IN  [ret |-> "Activated", threw |-> FALSE,
              det |-> [state |-> "Activated", issue |-> id],
              heap |-> Append(hp, issue)]
    ELSE [ret |-> "None", threw |-> FALSE, det |-> det, heap |-> hp]

\* a receiveLine that lets go of its issue when it reports Finished
ReceiveLineActivatedDrains(det, hp, line) ==
    IF isLogIndicateFinished(line)
    THEN IF det.issue = NoIssue
         THEN [ret |-> "None", threw |-> TRUE, det |-> det, heap |-> hp]
         ELSE [ret |-> "Finished", threw |-> FALSE,
               det |-> [det EXCEPT !.issue = NoIssue],
               heap |-> [hp EXCEPT ![det.issue] = addLogLine(@, line)]]
    ELSE LET stackKeywordIndex == IndexOf(line, PUERTS_STACK_KEYWORD)
         IN  [ret |-> "Activated", threw |-> FALSE, det |-> det,
              heap |-> IF stackKeywordIndex >= 0 /\ det.issue # NoIssue
                       THEN [hp EXCEPT ![det.issue] =
                               addStacktraceLine(setIssueType(@, "Exception"),
                                   ActiveStackFragment(line, stackKeywordIndex))]
                       ELSE hp]

\* receiveLine in any other state; this.issue!.addLogLine throws a TypeError
\* when the detector owns no issue
ReceiveLineActivated(det, hp, line) ==
    IF isLogIndicateFinished(line)
    THEN IF det.issue = NoIssue
         THEN [ret |-> "None", threw |-> TRUE, det |-> det, heap |-> hp]
         ELSE [ret |-> "Finished", threw |-> FALSE, det |-> det,
               heap |-> [hp EXCEPT ![det.issue] = addLogLine(@, line)]]
    ELSE LET stackKeywordIndex == IndexOf(line, PUERTS_STACK_KEYWORD)
         IN  [ret |-> "Activated", threw |-> FALSE, det |-> det,
              heap |-> IF stackKeywordIndex >= 0 /\ det.issue # NoIssue
                       THEN [hp EXCEPT ![det.issue] =
                               addStacktraceLine(setIssueType(@, "Exception"),
                                   ActiveStackFragment(line, stackKeywordIndex))]
                       ELSE hp]

receiveLine(det, hp, line) ==
    IF det.state = "None"
    THEN ReceiveLineNone(det, hp, line)
    ELSE ReceiveLineActivated(det, hp, line)

\* a pickIssue that hands the issue over and still holds on to it
pickIssueKeepsIssue(det) ==
    IF det.issue = NoIssue
    THEN [threw |-> TRUE, issue |-> NoIssue, det |-> det]
    ELSE [threw |-> FALSE, issue |-> det.issue,
          det |-> [state |-> "None", issue |-> det.issue]]

\* a pickIssue that returns undefined instead of throwing when nothing is owned
pickIssueNoThrow(det) ==
    IF det.issue = NoIssue
    THEN [threw |-> FALSE, issue |-> NoIssue, det |-> det]
    ELSE [threw |-> FALSE, issue |-> det.issue,
          det |-> [state |-> "None", issue |-> NoIssue]]

\* a pickIssue that hands the issue over without resetting the state
pickIssueKeepsState(det) ==
    IF det.issue = NoIssue
    THEN [threw |-> TRUE, issue |-> NoIssue, det |-> det]
    ELSE [threw |-> FALSE, issue |-> det.issue,
          det |-> [state |-> det.state, issue |-> NoIssue]]

\* a pickIssue that returns the issue and leaves the detector as it was
pickIssueNoClear(det) ==
    IF det.issue = NoIssue
    THEN [threw |-> TRUE, issue |-> NoIssue, det |-> det]
    ELSE [threw |-> FALSE, issue |-> det.issue, det |-> det]

\* pickIssue: throws Error("issue not exist") when no issue is owned
pickIssue(det) ==
    IF det.issue = NoIssue
    THEN [threw |-> TRUE, issue |-> NoIssue, det |-> det]
    ELSE [threw |-> FALSE, issue |-> det.issue,
          det |-> [state |-> "None", issue |-> NoIssue]]

getState(det) == det.state

(***************************************************************************)
(* LogScanner.                                                             *)
(***************************************************************************)
Null == 0

\* the scan in progress (or the next one to start), counted from 1
ScanNo == Len(returned) + 1

\* a Finished branch that forgets i--: the loop's i++ alone
FinishedCursorNoReplay(cur) == cur + 1

\* the cursor of the next iteration after a Finished result: i--, then the loop's i++
FinishedCursor(cur) == (cur - 1) + 1

\* issues.unshift(issue)
PushIssueFront(out, issue) == <<issue>> \o out

\* issues.push(issue)
PushIssue(out, issue) == Append(out, issue)

\* the registry probe of one line: detectors are offered the line in order until
\* one returns Activated
RECURSIVE ProbeFrom(_, _, _, _)
ProbeFrom(k, dets, hp, line) ==
    IF k > Len(dets)
    THEN [dets |-> dets, heap |-> hp, bound |-> Null, threw |-> FALSE]
    ELSE LET r == receiveLine(dets[k], hp, line)
             ds == [dets EXCEPT ![k] = r.det]
         IN  IF r.threw
             THEN [dets |-> ds, heap |-> r.heap, bound |-> Null, threw |-> TRUE]
             ELSE IF r.ret = "Activated"
             THEN [dets |-> ds, heap |-> r.heap, bound |-> k, threw |-> FALSE]
             ELSE ProbeFrom(k + 1, ds, r.heap, line)

\* a probe that keeps offering the line after a detector activated (no break)
RECURSIVE ProbeFromNoBreak(_, _, _, _, _)
ProbeFromNoBreak(k, dets, hp, line, bound) ==
    IF k > Len(dets)
    THEN [dets |-> dets, heap |-> hp, bound |-> bound, threw |-> FALSE]
    ELSE LET r == receiveLine(dets[k], hp, line)
             ds == [dets EXCEPT ![k] = r.det]
         IN  IF r.threw
             THEN [dets |-> ds, heap |-> r.heap, bound |-> bound, threw |-> TRUE]
             ELSE ProbeFromNoBreak(k + 1, ds, r.heap, line,
                                   IF r.ret = "Activated" THEN k ELSE bound)

ProbeNoBreak(dets, hp, line) == ProbeFromNoBreak(1, dets, hp, line, Null)

\* a probe that walks the registry from its end: the last registered match wins
RECURSIVE ProbeDownFrom(_, _, _, _)
ProbeDownFrom(k, dets, hp, line) ==
    IF k < 1
    THEN [dets |-> dets, heap |-> hp, bound |-> Null, threw |-> FALSE]
    ELSE LET r == receiveLine(dets[k], hp, line)
             ds == [dets EXCEPT ![k] = r.det]
         IN  IF r.threw
             THEN [dets |-> ds, heap |-> r.heap, bound |-> Null, threw |-> TRUE]
             ELSE IF r.ret = "Activated"
             THEN [dets |-> ds, heap |-> r.heap, bound |-> k, threw |-> FALSE]
             ELSE ProbeDownFrom(k - 1, ds, r.heap, line)

ProbeReverse(dets, hp, line) == ProbeDownFrom(Len(dets), dets, hp, line)

Probe(dets, hp, line) == ProbeFrom(1, dets, hp, line)

\* history: the provenance of the entries a step added to rawLogs
RawFromAfter(hp2, where) ==
    [id \in 1..Len(hp2) |->
        IF id > Len(heap) THEN [k \in 1..Len(hp2[id].rawLogs) |-> where]
        ELSE rawFrom[id] \o [k \in 1..(Len(hp2[id].rawLogs) - Len(heap[id].rawLogs)) |-> where]]

\* the contents a call may pass, by number of joined lines: n lines of one pool,
\* joined by newlines
ContentsByLength ==
    [n \in 0..MaxTotalLines |->
        UNION {{Join(ls) : ls \in [1..n -> pool]} : pool \in LinePools}]


\* no direct call has been made on a detector
NoCall ==
    [op |-> "none", line |-> <<>>, pre |-> NewDetector, ret |-> "None",
     threw |-> FALSE, issue |-> NoIssue]

Init ==
    /\ \E n \in 1..MaxDetectors : issueDetectors = [k \in 1..n |-> NewDetector]
    /\ activatedIssueDetector = Null
    /\ heap = <<>>
    /\ pc = "idle"
    /\ lines = <<>>
    /\ i = 0
    /\ issues = <<>>
    /\ returned = <<>>
    /\ linesFed = 0
    /\ received = <<>>
    /\ rawFrom = <<>>
    /\ owner = <<>>
    /\ scanned = <<>>
    /\ lastCall = NoCall
    /\ CollaboratorsIdle

\* scanLogContent(content): split the content and enter the loop
ScanLogContentCall ==
    /\ pc = "idle"
    /\ Len(returned) < MaxScans
    /\ linesFed < MaxTotalLines
    /\ \E n \in 0..(MaxTotalLines - linesFed) : \E content \in ContentsByLength[n] :
          LET split == Split(content)
          IN  /\ lines' = split
              /\ linesFed' = linesFed + Len(split)
    /\ i' = 0
    /\ issues' = <<>>
    /\ pc' = "loop"
    /\ UNCHANGED <<issueDetectors, activatedIssueDetector, heap, returned,
                   received, rawFrom, owner, scanned, lastCall>>
    /\ UNCHANGED collaboratorVars

\* one iteration with this.activatedIssueDetector set
LoopActivated ==
    /\ pc = "loop"
    /\ i < Len(lines)
    /\ activatedIssueDetector # Null
    /\ LET line == lines[i + 1]
           a == activatedIssueDetector
           owned == issueDetectors[a].issue
           here == [scan |-> ScanNo, idx |-> i]
           r == receiveLine(issueDetectors[a], heap, line)
           p == pickIssue(r.det)
       IN  /\ heap' = r.heap
           /\ rawFrom' = RawFromAfter(r.heap, here)
           /\ received' = IF owned = NoIssue THEN received
                          ELSE [received EXCEPT ![owned] =
                                  Append(@, [scan |-> ScanNo, idx |-> i, line |-> line])]
           /\ IF r.threw \/ (r.ret = "Finished" /\ p.threw)
              THEN /\ pc' = "raised"
                   /\ issueDetectors' = [issueDetectors EXCEPT ![a] = r.det]
                   /\ UNCHANGED <<activatedIssueDetector, i, issues>>
              ELSE IF r.ret = "Finished"
              THEN /\ issueDetectors' = [issueDetectors EXCEPT ![a] = p.det]
                   /\ issues' = PushIssue(issues, p.issue)
                   /\ activatedIssueDetector' = Null
                   /\ i' = FinishedCursor(i)
                   /\ pc' = "loop"
              ELSE /\ issueDetectors' = [issueDetectors EXCEPT ![a] = r.det]
                   /\ i' = i + 1
                   /\ pc' = "loop"
                   /\ UNCHANGED <<activatedIssueDetector, issues>>
    /\ UNCHANGED <<lines, returned, linesFed, owner, scanned, lastCall>>
    /\ UNCHANGED collaboratorVars

\* one iteration with this.activatedIssueDetector null: the registry probe
LoopProbe ==
    /\ pc = "loop"
    /\ i < Len(lines)
    /\ activatedIssueDetector = Null
    /\ LET line == lines[i + 1]
           here == [scan |-> ScanNo, idx |-> i]
           r == Probe(issueDetectors, heap, line)
       IN  /\ issueDetectors' = r.dets
           /\ heap' = r.heap
           /\ rawFrom' = RawFromAfter(r.heap, here)
           /\ received' = [id \in 1..Len(r.heap) |->
                             IF id > Len(heap)
                             THEN <<[scan |-> ScanNo, idx |-> i, line |-> line]>>
                             ELSE received[id]]
           /\ owner' = [id \in 1..Len(r.heap) |->
                          IF id > Len(heap) THEN r.bound ELSE owner[id]]
           /\ activatedIssueDetector' = r.bound
           /\ IF r.threw
              THEN pc' = "raised" /\ i' = i
              ELSE pc' = "loop" /\ i' = i + 1
    /\ UNCHANGED <<lines, issues, returned, linesFed, scanned, lastCall>>
    /\ UNCHANGED collaboratorVars

\* the loop ends: return issues
ScanLogContentReturn ==
    /\ pc = "loop"
    /\ i >= Len(lines)
    /\ returned' = Append(returned, issues)
    /\ pc' = "idle"
    /\ UNCHANGED <<issueDetectors, activatedIssueDetector, heap, lines, i, issues,
                   linesFed, received, rawFrom, owner, scanned, lastCall>>
    /\ UNCHANGED collaboratorVars

Next ==
    \/ ScanLogContentCall
    \/ LoopActivated
    \/ LoopProbe
    \/ ScanLogContentReturn

Spec == Init /\ [][Next]_vars

TypeOK ==
    /\ pc \in {"idle", "loop", "raised"}
    /\ activatedIssueDetector \in 0..Len(issueDetectors)
    /\ i \in 0..Len(lines)
    /\ \A k \in 1..Len(issueDetectors) :
          /\ issueDetectors[k].state \in {"None", "Activated", "Finished"}
          /\ issueDetectors[k].issue \in 0..Len(heap)
    /\ \A k \in 1..Len(issues) : issues[k] \in 1..Len(heap)
    /\ Len(received) = Len(heap) /\ Len(rawFrom) = Len(heap) /\ Len(owner) = Len(heap)
    /\ \A id \in 1..Len(heap) : Len(rawFrom[id]) = Len(heap[id].rawLogs)

(***************************************************************************)
(* A direct caller of the IIssueDetector interface: one                    *)
(* PuertsExceptionDetector driven by receiveLine and pickIssue calls in    *)
(* any order, an exception of a call being caught by the caller.           *)
(***************************************************************************)
AllLines == UNION LinePools

DetInit ==
    /\ issueDetectors = <<NewDetector>>
    /\ activatedIssueDetector = Null
    /\ heap = <<>>
    /\ pc = "idle"
    /\ lines = <<>>
    /\ i = 0
    /\ issues = <<>>
    /\ returned = <<>>
    /\ linesFed = 0
    /\ received = <<>>
    /\ rawFrom = <<>>
    /\ owner = <<>>
    /\ scanned = <<>>
    /\ lastCall = NoCall
    /\ CollaboratorsIdle

\* detector.receiveLine(line)
DetReceiveLine ==
    /\ linesFed < MaxTotalLines
    /\ \E line \in AllLines :
          LET r == receiveLine(issueDetectors[1], heap, line)
          IN  /\ issueDetectors' = <<r.det>>
              /\ heap' = r.heap
              /\ lastCall' = [op |-> "receiveLine", line |-> line,
                              pre |-> issueDetectors[1], ret |-> r.ret,
                              threw |-> r.threw, issue |-> NoIssue]
    /\ linesFed' = linesFed + 1
    /\ UNCHANGED <<activatedIssueDetector, pc, lines, i, issues, returned,
                   received, rawFrom, owner, scanned>>
    /\ UNCHANGED collaboratorVars

\* detector.pickIssue()
DetPickIssue ==
    /\ LET p == pickIssue(issueDetectors[1])
       IN  /\ issueDetectors' = <<p.det>>
           /\ lastCall' = [op |-> "pickIssue", line |-> <<>>,
                           pre |-> issueDetectors[1], ret |-> "None",
                           threw |-> p.threw, issue |-> p.issue]
    /\ UNCHANGED <<activatedIssueDetector, heap, pc, lines, i, issues, returned,
                   linesFed, received, rawFrom, owner, scanned>>
    /\ UNCHANGED collaboratorVars

DetNext ==
    \/ DetReceiveLine
    \/ DetPickIssue

DetectorSpec == DetInit /\ [][DetNext]_vars

(***************************************************************************)
(* One scanLogContent call per LogScanner: every call is made on a scanner *)
(* constructed for it, with a registry of new detectors and an empty slot. *)
(* The Issue objects of earlier scanners stay on the heap.                 *)
(***************************************************************************)
\* a constructor that takes over the detectors of the previous scanner
NewRegistryReused(dets) == dets

\* constructor: this.issueDetectors holds newly constructed detectors
NewRegistry(dets) == [k \in 1..Len(dets) |-> NewDetector]

\* new LogScanner().scanLogContent(content)
FreshScanLogContentCall ==
    /\ pc = "idle"
    /\ Len(returned) < MaxScans
    /\ linesFed < MaxTotalLines
    /\ \E n \in 0..(MaxTotalLines - linesFed) : \E content \in ContentsByLength[n] :
          LET split == Split(content)
          IN  /\ lines' = split
              /\ linesFed' = linesFed + Len(split)
              /\ scanned' = Append(scanned, split)
    /\ issueDetectors' = NewRegistry(issueDetectors)
    /\ activatedIssueDetector' = Null
    /\ i' = 0
    /\ issues' = <<>>
    /\ pc' = "loop"
    /\ UNCHANGED <<heap, returned, received, rawFrom, owner, lastCall>>
    /\ UNCHANGED collaboratorVars

FreshNext ==
    \/ FreshScanLogContentCall
    \/ LoopActivated
    \/ LoopProbe
    \/ ScanLogContentReturn

FreshSpec == Init /\ [][FreshNext]_vars

(***************************************************************************)
(* scanLogFile on one scanner, as scanLogDirectory calls it for every .log *)
(* file.  A path is the sequence of its segments.                          *)
(***************************************************************************)
Last(seq) == seq[Len(seq)]

\* path.normalize on a relative path: "." segments are dropped and ".."
\* removes the segment before it
RECURSIVE NormalizeFrom(_, _)
NormalizeFrom(done, rest) ==
    IF rest = <<>> THEN done
    ELSE IF Head(rest) = "." THEN NormalizeFrom(done, Tail(rest))
    ELSE IF Head(rest) = ".." /\ done # <<>> /\ Last(done) # ".."
    THEN NormalizeFrom(SubSeq(done, 1, Len(done) - 1), Tail(rest))
    ELSE NormalizeFrom(Append(done, Head(rest)), Tail(rest))

Normalize(filePath) == NormalizeFrom(<<>>, filePath)

\* the files on disk, by normalized path; r.log is a directory, which
\* fs.readFile rejects
FileAt(normalizedPath) ==
    CASE normalizedPath = <<"logs", "a.log">> ->
            [kind |-> "file", content |-> Join(<<StartLine>>)]
      [] normalizedPath = <<"logs", "b.log">> ->
            [kind |-> "file", content |-> Join(<<StartLine, StartStackLine>>)]
      [] normalizedPath = <<"logs", "c.log">> ->
            [kind |-> "file", content |-> Join(<<PlainLine, StackLine>>)]
      [] normalizedPath = <<"logs", "r.log">> ->
            [kind |-> "directory", content |-> <<>>]
      [] OTHER -> [kind |-> "missing", content |-> <<>>]

\* the filePath arguments
FilePaths ==
    {<<"logs", "a.log">>, <<"logs", ".", "a.log">>, <<"logs", "b.log">>,
     <<"logs", "x", "..", "b.log">>, <<"logs", "c.log">>, <<"logs", "r.log">>,
     <<"logs", "m.log">>}

\* issues.forEach(issue => issue.source = normalizedPath)
StampSource(hp, out, normalizedPath) ==
    [id \in 1..Len(hp) |->
        IF \E k \in 1..Len(out) : out[k] = id
        THEN [hp[id] EXCEPT !.source = normalizedPath]
        ELSE hp[id]]

\* scanLogFile(filePath) up to the loop of scanLogContent; a missing file and a
\* rejected read return [] at once
ScanLogFileCall ==
    /\ pc = "idle"
    /\ Len(returned) < MaxScans
    /\ \E filePath \in FilePaths :
          LET normalizedPath == Normalize(filePath)
              file == FileAt(normalizedPath)
              split == Split(file.content)
          IN  /\ files' = Append(files, filePath)
              /\ IF file.kind = "file"
                 THEN /\ linesFed + Len(split) <= MaxTotalLines
                      /\ lines' = split
                      /\ linesFed' = linesFed + Len(split)
                      /\ i' = 0
                      /\ issues' = <<>>
                      /\ pc' = "loop"
                      /\ UNCHANGED returned
                 ELSE /\ returned' = Append(returned, <<>>)
                      /\ UNCHANGED <<lines, linesFed, i, issues, pc>>
    /\ UNCHANGED <<issueDetectors, activatedIssueDetector, heap,
                   received, rawFrom, owner, scanned, lastCall>>
    /\ UNCHANGED <<solutions, config, configFile, report>>

\* scanLogContent returns and the issues are stamped; an exception of the scan
\* is caught and [] is returned
ScanLogFileReturn ==
    /\ \/ pc = "loop" /\ i >= Len(lines)
       \/ pc = "raised"
    /\ IF pc = "raised"
       THEN /\ returned' = Append(returned, <<>>)
            /\ heap' = heap
       ELSE /\ returned' = Append(returned, issues)
            /\ heap' = StampSource(heap, issues, Normalize(Last(files)))
    /\ pc' = "idle"
    /\ UNCHANGED <<issueDetectors, activatedIssueDetector, lines, i, issues,
                   linesFed, received, rawFrom, owner, scanned, lastCall>>
    /\ UNCHANGED collaboratorVars

FileNext ==
    \/ ScanLogFileCall
    \/ LoopActivated
    \/ LoopProbe
    \/ ScanLogFileReturn

FileSpec == Init /\ [][FileNext]_vars

(***************************************************************************)
(* ProblemResolver (with SourceCodeFinder and LLMClient as its             *)
(* environment), resolving the issues of a finished scan.  Calls are made  *)
(* one at a time, as batchResolveIssues and main await them.               *)
(***************************************************************************)
\* the heap after one scanner has scanned three start lines, the second with a
\* stack frame: issues 1 and 2 are emitted, issue 3 is open
ScannedHeap ==
    LET r1 == receiveLine(NewDetector, <<>>, StartLine)
        r2 == receiveLine(r1.det, r1.heap, StartStackLine)
        r3 == receiveLine(NewDetector, r2.heap, StartStackLine)
        r4 == receiveLine(r3.det, r3.heap, StartLine)
        r5 == receiveLine(NewDetector, r4.heap, StartLine)
    IN  r5.heap

\* the outcomes of sourceCodeFinder.findRelevantCode
FinderOutcomes == {"found", "null", "throws"}

\* the outcomes of the LLM request inside generateSolution: no API key, a
\* completion, a rejected request, a response without choices, a message
\* without content
LLMOutcomes == {"noKey", "completion", "apiError", "badShape", "noContent"}

generateMockSolution == "mock text"

\* LLMClient.generateSolution: every failure of the request is caught inside and
\* answered with the mock text; a message without content is returned as it is
generateSolution(llm) ==
    CASE llm = "completion" -> "llm text"
      [] llm = "noContent" -> "undefined"
      [] OTHER -> generateMockSolution

\* LLMClient.parseSolution on a text without code blocks and links;
\* solutionText.matchAll throws when the text is undefined
parseSolution(solutionText) ==
    IF solutionText = "undefined"
    THEN [threw |-> TRUE, recommendation |-> "", codeSnippet |-> "", references |-> <<>>]
    ELSE [threw |-> FALSE, recommendation |-> solutionText, codeSnippet |-> "",
          references |-> <<>>]

\* new Solution(data); obj tells the Solution objects apart
NewSolution(obj, issueId, recommendation, codeSnippet, confidence, references) ==
    [obj |-> obj, issueId |-> issueId, recommendation |-> recommendation,
     codeSnippet |-> codeSnippet, confidence |-> confidence, references |-> references]

\* Map.prototype.set
MapSet(map, key, value) ==
    [k \in (DOMAIN map) \cup {key} |-> IF k = key THEN value ELSE map[k]]

\* a resolveIssue that does not store the fallback solution
resolveIssueFallbackNotStored(map, issue, finder, llm, obj) ==
    IF issue.id \in DOMAIN map
    THEN [solution |-> map[issue.id], solutions |-> map, hit |-> TRUE,
          finderCalled |-> FALSE, llmCalled |-> FALSE, failed |-> FALSE]
    ELSE LET solutionText == generateSolution(llm)
             parsed == parseSolution(solutionText)
         IN  IF finder = "throws" \/ parsed.threw
             THEN LET fallbackSolution ==
                          NewSolution(obj, issue.id,
                              "Could not generate a solution due to an error.",
                              "", "0.1", <<>>)
                  IN  [solution |-> fallbackSolution,
                       solutions |-> map,
                       hit |-> FALSE, finderCalled |-> TRUE,
                       llmCalled |-> finder # "throws", failed |-> TRUE]
             ELSE LET solution == NewSolution(obj, issue.id, parsed.recommendation,
                                      parsed.codeSnippet, "0.8", parsed.references)
                  IN  [solution |-> solution,
                       solutions |-> MapSet(map, issue.id, solution),
                       hit |-> FALSE, finderCalled |-> TRUE, llmCalled |-> TRUE,
                       failed |-> FALSE]

\* ProblemResolver.resolveIssue(issue) with the outcomes of its collaborators;
\* failed tells that the catch block ran
resolveIssue(map, issue, finder, llm, obj) ==
    IF issue.id \in DOMAIN map
    THEN [solution |-> map[issue.id], solutions |-> map, hit |-> TRUE,
          finderCalled |-> FALSE, llmCalled |-> FALSE, failed |-> FALSE]
    ELSE LET solutionText == generateSolution(llm)
             parsed == parseSolution(solutionText)
         IN  IF finder = "throws" \/ parsed.threw
             THEN LET fallbackSolution ==
                          NewSolution(obj, issue.id,
                              "Could not generate a solution due to an error.",
                              "", "0.1", <<>>)
                  IN  [solution |-> fallbackSolution,
                       solutions |-> MapSet(map, issue.id, fallbackSolution),
                       hit |-> FALSE, finderCalled |-> TRUE,
                       llmCalled |-> finder # "throws", failed |-> TRUE]
             ELSE LET solution == NewSolution(obj, issue.id, parsed.recommendation,
                                      parsed.codeSnippet, "0.8", parsed.references)
                  IN  [solution |-> solution,
                       solutions |-> MapSet(map, issue.id, solution),
                       hit |-> FALSE, finderCalled |-> TRUE, llmCalled |-> TRUE,
                       failed |-> FALSE]

\* the record of the calls made on the resolver: the last resolveIssue with the
\* outcomes of its collaborators, the totals, and the array of the batch
NoResolve ==
    [op |-> "none", issue |-> NoIssue, finder |-> "null", llm |-> "noKey",
     solution |-> <<>>, hit |-> FALSE, failed |-> FALSE, calls |-> 0,
     finderCalls |-> 0, llmCalls |-> 0, created |-> 0, batch |-> <<>>]

AfterResolve(op, id, finder, llm, r, batch) ==
    [op |-> op, issue |-> id, finder |-> finder, llm |-> llm,
     solution |-> r.solution, hit |-> r.hit, failed |-> r.failed,
     calls |-> lastCall.calls + 1,
     finderCalls |-> lastCall.finderCalls + (IF r.finderCalled THEN 1 ELSE 0),
     llmCalls |-> lastCall.llmCalls + (IF r.llmCalled THEN 1 ELSE 0),
     created |-> lastCall.created + (IF r.hit THEN 0 ELSE 1),
     batch |-> batch]

\* the arrays passed to batchResolveIssues: issues of the scan output
BatchInputs == {<<>>, <<1>>, <<1, 2>>, <<2, 1>>, <<1, 1>>, <<2, 1, 2>>}

ResolverInit ==
    /\ issueDetectors = <<NewDetector>>
    /\ activatedIssueDetector = Null
    /\ heap = ScannedHeap
    /\ pc = "idle"
    /\ lines = <<>>
    /\ i = 0
    /\ issues = <<>>
    /\ returned = <<<<1, 2>>>>
    /\ linesFed = 0
    /\ received = <<>>
    /\ rawFrom = <<>>
    /\ owner = <<>>
    /\ scanned = <<>>
    /\ lastCall = NoResolve
    /\ CollaboratorsIdle

\* await resolver.resolveIssue(issue)
ResolveIssueCall ==
    /\ pc = "idle"
    /\ lastCall.calls < MaxResolves
    /\ \E id \in 1..Len(heap), finder \in FinderOutcomes, llm \in LLMOutcomes :
          LET r == resolveIssue(solutions, heap[id], finder, llm, lastCall.created + 1)
          IN  /\ solutions' = r.solutions
              /\ lastCall' = AfterResolve("resolveIssue", id, finder, llm, r, <<>>)
    /\ UNCHANGED <<issueDetectors, activatedIssueDetector, heap, pc, lines, i, issues,
                   returned, linesFed, received, rawFrom, owner, scanned>>
    /\ UNCHANGED <<files, config, configFile, report>>

\* batchResolveIssues(issues): const solutions = []
BatchResolveIssuesCall ==
    /\ pc = "idle"
    /\ \E input \in BatchInputs :
          /\ lastCall.calls + Len(input) <= MaxResolves
          /\ issues' = input
    /\ i' = 0
    /\ pc' = "batch"
    /\ lastCall' = [lastCall EXCEPT !.op = "batchResolveIssues", !.batch = <<>>]
    /\ UNCHANGED <<issueDetectors, activatedIssueDetector, heap, lines,
                   returned, linesFed, received, rawFrom, owner, scanned>>
    /\ UNCHANGED collaboratorVars

\* one iteration of the loop of batchResolveIssues
BatchResolveIssuesStep ==
    /\ pc = "batch"
    /\ i < Len(issues)
    /\ \E finder \in FinderOutcomes, llm \in LLMOutcomes :
          LET id == issues[i + 1]
              r == resolveIssue(solutions, heap[id], finder, llm, lastCall.created + 1)
          IN  /\ solutions' = r.solutions
              /\ lastCall' = AfterResolve("batchStep", id, finder, llm, r,
                                 Append(lastCall.batch, r.solution))
    /\ i' = i + 1
    /\ UNCHANGED <<issueDetectors, activatedIssueDetector, heap, pc, lines, issues,
                   returned, linesFed, received, rawFrom, owner, scanned>>
    /\ UNCHANGED <<files, config, configFile, report>>

\* batchResolveIssues returns its array
BatchResolveIssuesReturn ==
    /\ pc = "batch"
    /\ i >= Len(issues)
    /\ pc' = "idle"
    /\ lastCall' = [lastCall EXCEPT !.op = "batchReturn"]
    /\ UNCHANGED <<issueDetectors, activatedIssueDetector, heap, lines, i, issues,
                   returned, linesFed, received, rawFrom, owner, scanned>>
    /\ UNCHANGED collaboratorVars

ResolverNext ==
    \/ ResolveIssueCall
    \/ BatchResolveIssuesCall
    \/ BatchResolveIssuesStep
    \/ BatchResolveIssuesReturn

ResolverSpec == ResolverInit /\ [][ResolverNext]_vars

(***************************************************************************)
(* ReportGenerator.generateReport: the pairing of issues with solutions    *)
(* that is handed to the template.                                         *)
(***************************************************************************)
NullSolution == [obj |-> 0]

\* a find that returns the last match
FindLastSolution(sols, issue) ==
    LET hits == {k \in 1..Len(sols) : sols[k].issueId = issue.id}
    IN  IF hits = {} THEN NullSolution
        ELSE sols[CHOOSE k \in hits : \A j \in hits : j <= k]

\* solutions.find(s => issue.id && s.issueId === issue.id) || null
FindSolution(sols, issue) ==
    LET hits == {k \in 1..Len(sols) : sols[k].issueId = issue.id}
    IN  IF hits = {} THEN NullSolution
        ELSE sols[CHOOSE k \in hits : \A j \in hits : k <= j]

\* issues.map(issue => ({ issue, solution }))
IssuesWithSolutions(iss, sols) ==
    [k \in 1..Len(iss) |->
        [issue |-> iss[k], solution |-> FindSolution(sols, heap[iss[k]])]]

\* the arrays of at most n elements over a set
ArraysUpTo(set, n) == UNION {[1..m -> set] : m \in 0..n}

\* arrays of Solution objects; the k-th is for any of the issues of the heap
SolutionArrays ==
    {[k \in 1..Len(ids) |-> NewSolution(k, ids[k], "r", "", "0.8", <<>>)] :
        ids \in ArraysUpTo(1..Len(ScannedHeap), MaxReportSolutions)}

ReportInit ==
    /\ issueDetectors = <<NewDetector>>
    /\ activatedIssueDetector = Null
    /\ heap = ScannedHeap
    /\ pc = "idle"
    /\ lines = <<>>
    /\ i = 0
    /\ issues = <<>>
    /\ returned = <<<<1, 2>>>>
    /\ linesFed = 0
    /\ received = <<>>
    /\ rawFrom = <<>>
    /\ owner = <<>>
    /\ scanned = <<>>
    /\ lastCall = NoCall
    /\ files = <<>>
    /\ solutions = <<>>
    /\ config = JNull
    /\ configFile = [kind |-> "missing"]
    /\ \E iss \in ArraysUpTo(1..Len(ScannedHeap), MaxReportIssues),
          sols \in SolutionArrays :
          report = [issues |-> iss, solutions |-> sols, done |-> FALSE,
                    issuesWithSolutions |-> <<>>]

\* generateReport(issues, solutions) up to the rendering
GenerateReport ==
    /\ ~report.done
    /\ report' = [report EXCEPT !.done = TRUE,
                                !.issuesWithSolutions =
                                    IssuesWithSolutions(report.issues, report.solutions)]
    /\ UNCHANGED scannerVars
    /\ UNCHANGED <<files, solutions, config, configFile>>

ReportNext == GenerateReport

ReportSpec == ReportInit /\ [][ReportNext]_vars

(***************************************************************************)
(* ConfigManager.  A JSON value is a record with its kind; a field that an *)
(* object does not have is "undefined".  returned collects the values the  *)
(* finished loadConfig calls resolved with.                                *)
(***************************************************************************)
JObject(sourceDir, reportTemplate, outputDir) ==
    [kind |-> "object", sourceDir |-> sourceDir, reportTemplate |-> reportTemplate,
     outputDir |-> outputDir]

\* getDefaultConfig()
getDefaultConfig == JObject("null", "../templates/report.html", "./reports")

\* the texts a configuration file may hold
TextNull == "null"
TextFalse == "false"
TextTruncated == "{"
TextEmptyObject == "{}"
TextCompact == "{\"sourceDir\":\"src\",\"outputDir\":\"out\"}"
TextPretty == "{\n    \"sourceDir\": \"src\",\n    \"outputDir\": \"out\"\n}"
TextDefaultPretty == "{\n    \"sourceDir\": null,\n    \"reportTemplate\": \"../templates/report.html\",\n    \"outputDir\": \"./reports\"\n}"

ConfigTexts == {TextNull, TextFalse, TextTruncated, TextEmptyObject, TextCompact}

\* JSON.parse on these texts
JSONParse(text) ==
    CASE text = TextNull -> [threw |-> FALSE, value |-> JNull]
      [] text = TextFalse -> [threw |-> FALSE, value |-> [kind |-> "false"]]
      [] text = TextEmptyObject ->
            [threw |-> FALSE, value |-> JObject("undefined", "undefined", "undefined")]
      [] text \in {TextCompact, TextPretty} ->
            [threw |-> FALSE, value |-> JObject("src", "undefined", "out")]
      [] text = TextDefaultPretty -> [threw |-> FALSE, value |-> getDefaultConfig]
      [] OTHER -> [threw |-> TRUE, value |-> JNull]

\* JSON.stringify(value, null, 4)
JSONStringify(value) ==
    CASE value = JNull -> TextNull
      [] value = [kind |-> "false"] -> TextFalse
      [] value = JObject("undefined", "undefined", "undefined") -> TextEmptyObject
      [] value = getDefaultConfig -> TextDefaultPretty
      [] OTHER -> TextPretty

\* !value
Falsy(value) == value.kind \in {"null", "false"}

\* value.field || fallback; a field of a value that is not an object is undefined
FieldOr(value, field, fallback) ==
    IF value.kind # "object" \/ value[field] = "undefined"
    THEN fallback
    ELSE value[field]

NoConfigCall == [op |-> "none", threw |-> FALSE, ret |-> JNull]

ConfigInit ==
    /\ issueDetectors = <<NewDetector>>
    /\ activatedIssueDetector = Null
    /\ heap = <<>>
    /\ pc = "idle"
    /\ lines = <<>>
    /\ i = 0
    /\ issues = <<>>
    /\ returned = <<>>
    /\ linesFed = 0
    /\ received = <<>>
    /\ rawFrom = <<>>
    /\ owner = <<>>
    /\ scanned = <<>>
    /\ lastCall = NoConfigCall
    /\ files = <<>>
    /\ solutions = <<>>
    /\ config = JNull
    /\ \/ configFile = [kind |-> "missing"]
       \/ \E text \in ConfigTexts : configFile = [kind |-> "file", text |-> text]
    /\ report = NoReport

\* loadConfig() up to the await of fs.readFile
LoadConfigCall ==
    /\ pc = "idle"
    /\ Len(returned) < MaxLoads
    /\ pc' = "loading"
    /\ UNCHANGED <<issueDetectors, activatedIssueDetector, heap, lines, i, issues,
                   returned, linesFed, received, rawFrom, owner, scanned, lastCall>>
    /\ UNCHANGED collaboratorVars

\* loadConfig() after the await: parse, or the default config in the catch
LoadConfigReturn ==
    /\ pc = "loading"
    /\ LET parsed == IF configFile.kind = "file"
                     THEN JSONParse(configFile.text)
                     ELSE [threw |-> TRUE, value |-> JNull]
           loaded == IF parsed.threw THEN getDefaultConfig ELSE parsed.value
       IN  /\ config' = loaded
           /\ returned' = Append(returned, loaded)
           /\ lastCall' = [op |-> "loadConfig", threw |-> FALSE, ret |-> loaded]
    /\ pc' = "idle"
    /\ UNCHANGED <<issueDetectors, activatedIssueDetector, heap, lines, i, issues,
                   linesFed, received, rawFrom, owner, scanned>>
    /\ UNCHANGED <<files, solutions, configFile, report>>

\* the frame of a getter: only the record of the call changes
GetterFrame ==
    /\ UNCHANGED <<issueDetectors, activatedIssueDetector, heap, pc, lines, i, issues,
                   returned, linesFed, received, rawFrom, owner, scanned>>
    /\ UNCHANGED collaboratorVars

GetLogScannerConfig ==
    /\ lastCall' = [op |-> "getLogScannerConfig", threw |-> Falsy(config),
                    ret |-> [kind |-> "ScannerConfig"]]
    /\ GetterFrame

GetProblemResolverConfig ==
    /\ lastCall' = [op |-> "getProblemResolverConfig", threw |-> Falsy(config),
                    ret |-> [kind |-> "ResolverConfig",
                             sourceDir |-> IF config.kind = "object"
                                           THEN config.sourceDir
                                           ELSE "undefined"]]
    /\ GetterFrame

GetReportGeneratorConfig ==
    /\ lastCall' = [op |-> "getReportGeneratorConfig", threw |-> Falsy(config),
                    ret |-> [kind |-> "ReportConfig",
                             templatePath |-> FieldOr(config, "reportTemplate",
                                                  "../templates/report.html"),
                             outputDir |-> FieldOr(config, "outputDir", "./reports")]]
    /\ GetterFrame

\* saveConfig(): rejects when no config is loaded or when the write fails
SaveConfig ==
    /\ pc = "idle"
    /\ \E writeFails \in BOOLEAN :
          /\ lastCall' = [op |-> "saveConfig", threw |-> Falsy(config) \/ writeFails,
                          ret |-> [kind |-> IF Falsy(config) THEN "Config not loaded"
                                            ELSE "write"]]
          /\ configFile' = IF Falsy(config) \/ writeFails THEN configFile
                           ELSE [kind |-> "file", text |-> JSONStringify(config)]
    /\ UNCHANGED <<issueDetectors, activatedIssueDetector, heap, pc, lines, i, issues,
                   returned, linesFed, received, rawFrom, owner, scanned>>
    /\ UNCHANGED <<files, solutions, config, report>>

ConfigNext ==
    \/ LoadConfigCall
    \/ LoadConfigReturn
    \/ GetLogScannerConfig
    \/ GetProblemResolverConfig
    \/ GetReportGeneratorConfig
    \/ SaveConfig

ConfigSpec == ConfigInit /\ [][ConfigNext]_vars

(***************************************************************************)
(* Helpers of the properties.                                              *)
(***************************************************************************)
\* the detectors whose state is Activated
ActivatedDetectors ==
    {k \in 1..Len(issueDetectors) : getState(issueDetectors[k]) = "Activated"}

\* the issues handed to an output: of the call in progress or of a finished call
Emitted ==
    {issues[k] : k \in 1..Len(issues)}
        \cup UNION {{returned[t][k] : k \in 1..Len(returned[t])} : t \in 1..Len(returned)}

(***************************************************************************)
(* C1: at every step of scanLogContent, for registries of one or more      *)
(* detectors and every line sequence, at most one detector of the registry *)
(* is in the Activated state.                                              *)
(***************************************************************************)
C1_AtMostOneActivated ==
    Cardinality(ActivatedDetectors) <= 1

\* a registry of two detectors in the middle of a scan, one of them activated
C1_Witness ==
    /\ pc = "loop"
    /\ Len(issueDetectors) = 2
    /\ Cardinality(ActivatedDetectors) = 1
    /\ issues # <<>>

(***************************************************************************)
(* C2: an issue never spans two log sources: no emitted issue holds a raw  *)
(* line of one scanned content and a raw line of another, so a block left  *)
(* open at the end of one source is not completed by a line of the next.   *)
(* (Each scanLogContent call on the scanner scans one source.)             *)
(***************************************************************************)
C2_NoIssueSpansSources ==
    \A id \in Emitted :
        \A k \in 1..Len(rawFrom[id]) : rawFrom[id][k].scan = rawFrom[id][1].scan

(***************************************************************************)
(* C3: replay.  Whenever the active detector returns Finished on line i,   *)
(* the scan emits that detector's issue, clears the active slot and keeps  *)
(* the cursor on line i; the next iteration offers the same line i to the  *)
(* registry, where it opens a new issue, before any later line is          *)
(* processed.  Two consecutive start lines scanned by a fresh scanner      *)
(* therefore yield exactly one emitted issue and leave a second issue in   *)
(* progress.                                                               *)
(***************************************************************************)
\* the active detector is about to return Finished on line i
C3_FinishedHere ==
    /\ pc = "loop"
    /\ i < Len(lines)
    /\ activatedIssueDetector # Null
    /\ receiveLine(issueDetectors[activatedIssueDetector], heap, lines[i + 1]).ret
           = "Finished"

\* the last emitted issue was closed by line i of this scan and line i has not
\* been offered to the registry again yet
C3_ReplayPending ==
    /\ pc = "loop"
    /\ activatedIssueDetector = Null
    /\ issues # <<>>
    /\ LET c == Last(received[Last(issues)])
       IN  c.scan = ScanNo /\ c.idx = i
    /\ \A id \in 1..Len(heap) : received[id][1] # [scan |-> ScanNo, idx |-> i,
                                                   line |-> lines[i + 1]]

C3_FinishedStep ==
    C3_FinishedHere =>
        /\ issues' = Append(issues, issueDetectors[activatedIssueDetector].issue)
        /\ activatedIssueDetector' = Null
        /\ i' = i
        /\ lines' = lines
        /\ C3_ReplayPending'

C3_ReplayStep ==
    C3_ReplayPending =>
        /\ i' = i + 1
        /\ issues' = issues
        /\ activatedIssueDetector' # Null
        /\ Len(heap') = Len(heap) + 1
        /\ received'[Len(heap')] = <<[scan |-> ScanNo, idx |-> i, line |-> lines[i + 1]]>>
        /\ issueDetectors'[activatedIssueDetector'].issue = Len(heap')

\* a fresh scanner has returned from scanning two start lines
C3_TwoStartLinesScanned ==
    /\ pc = "idle"
    /\ Len(returned) = 1
    /\ Len(lines) = 2
    /\ IsStartLine(lines[1])
    /\ IsStartLine(lines[2])

C3_TwoStartLines ==
    C3_TwoStartLinesScanned =>
        /\ Len(returned[1]) = 1
        /\ heap[returned[1][1]].rawLogs = <<lines[1], lines[2]>>
        /\ activatedIssueDetector # Null
        /\ LET d == issueDetectors[activatedIssueDetector]
           IN  /\ d.issue \notin Emitted
               /\ d.issue # NoIssue
               /\ received[d.issue] = <<[scan |-> 1, idx |-> 1, line |-> lines[2]]>>

C3_Replay ==
    /\ [][C3_FinishedStep /\ C3_ReplayStep]_vars
    /\ []C3_TwoStartLines

C3_Witness ==
    /\ C3_TwoStartLinesScanned
    /\ Len(returned[1]) = 1
    /\ activatedIssueDetector # Null

(***************************************************************************)
(* C4: totality.  For every finite line sequence scanLogContent terminates *)
(* and returns without raising to the caller, although the cursor is       *)
(* decremented on every Finished result: nothing is ever raised, every     *)
(* iteration of the loop strictly decreases a non-negative measure, and    *)
(* the step that leaves the loop returns the issues collected.             *)
(***************************************************************************)
\* twice the lines left, plus one while a detector is bound
C4_Variant ==
    2 * (Len(lines) - i) + (IF activatedIssueDetector # Null THEN 1 ELSE 0)

C4_Progress ==
    /\ pc = "loop" => pc' \in {"loop", "idle"}
    /\ (pc = "loop" /\ pc' = "loop") => C4_Variant' < C4_Variant
    /\ (pc = "loop" /\ pc' = "idle") => returned' = Append(returned, issues)

C4_Totality ==
    /\ [](pc # "raised")
    /\ [](C4_Variant >= 0)
    /\ [][C4_Progress]_vars

\* a call returned after an iteration that did not advance the cursor
C4_Witness ==
    /\ pc = "idle"
    /\ Len(returned) = 1
    /\ Len(returned[1]) >= 2

(***************************************************************************)
(* C5: discard on truncation.  An issue that is still in progress when the *)
(* cursor of a scan reaches the end of the line sequence is never emitted: *)
(* no output, of that scan or of a later one, holds an issue that was      *)
(* opened in an earlier scan and left open at its end.                     *)
(***************************************************************************)
\* issue id was opened during a finished scan that did not emit it
C5_LeftOpen(id) ==
    \E s \in 1..Len(returned) :
        /\ received[id][1].scan = s
        /\ \A k \in 1..Len(returned[s]) : returned[s][k] # id

C5_DiscardOnTruncation ==
    \A id \in Emitted : ~C5_LeftOpen(id)

(***************************************************************************)
(* C6: no false positives.  While and after a fresh scanner scans a line   *)
(* sequence in which no line contains the start keyword, the output is     *)
(* empty, no issue exists, every detector is in state None and owns no     *)
(* issue, and the active slot is unset.                                    *)
(***************************************************************************)
\* the first scan of the scanner, in progress or just returned
C6_FirstScan ==
    \/ pc = "loop" /\ Len(returned) = 0
    \/ pc = "idle" /\ Len(returned) = 1

C6_NoMarker ==
    \A k \in 1..Len(lines) : IndexOf(lines[k], PUERTS_ERROR_KEYWORD) = -1

C6_NoFalsePositives ==
    (C6_FirstScan /\ C6_NoMarker) =>
        /\ issues = <<>>
        /\ \A t \in 1..Len(returned) : returned[t] = <<>>
        /\ heap = <<>>
        /\ activatedIssueDetector = Null
        /\ \A k \in 1..Len(issueDetectors) : issueDetectors[k] = NewDetector

\* a fresh scanner returned from three lines without the keyword
C6_Witness ==
    /\ pc = "idle"
    /\ Len(returned) = 1
    /\ Len(lines) = 3
    /\ C6_NoMarker
    /\ returned[1] = <<>>

(***************************************************************************)
(* C7: raw-line accumulation.  The rawLogs of an issue are, in order,      *)
(* every line its owning detector received from the opening line through  *)
(* the closing line: every continuation line received while activated is   *)
(* appended.                                                               *)
(***************************************************************************)
C7_ReceivedLines(id) ==
    [k \in 1..Len(received[id]) |-> received[id][k].line]

C7_RawLinesAreAllReceived ==
    \A id \in 1..Len(heap) : heap[id].rawLogs = C7_ReceivedLines(id)

(***************************************************************************)
(* C8: stack accumulation.  Every line received while activated that holds *)
(* the stack keyword and is not an end line appends exactly one entry to   *)
(* stackTrace, in the order received, which is a suffix of the line that   *)
(* holds the whole frame text after the keyword; the issue type is then    *)
(* Exception; other continuation lines append nothing.                     *)
(***************************************************************************)
IsSuffix(a, b) ==
    Len(a) <= Len(b) /\ SubSeq(b, Len(b) - Len(a) + 1, Len(b)) = a

C8_IsFrameLine(rec) ==
    /\ ~isLogIndicateFinished(rec.line)
    /\ IndexOf(rec.line, PUERTS_STACK_KEYWORD) >= 0

\* the text of the frame of a line: what follows the stack keyword
C8_FrameText(line) ==
    Substring(line, IndexOf(line, PUERTS_STACK_KEYWORD) + Len(PUERTS_STACK_KEYWORD))

\* the continuation lines of issue id that hold a frame, in the order received
C8_FrameLines(id) ==
    SelectSeq(Tail(received[id]), C8_IsFrameLine)

\* the number of stackTrace entries that come from the opening line
C8_OpeningEntries(id) ==
    IF IndexOf(received[id][1].line, PUERTS_STACK_KEYWORD) >= 0 THEN 1 ELSE 0

C8_StackAccumulation ==
    \A id \in 1..Len(heap) :
        LET frames == C8_FrameLines(id)
            first == C8_OpeningEntries(id)
        IN  /\ Len(heap[id].stackTrace) = first + Len(frames)
            /\ \A k \in 1..Len(frames) :
                  /\ IsSuffix(heap[id].stackTrace[first + k], frames[k].line)
                  /\ IsSuffix(C8_FrameText(frames[k].line), heap[id].stackTrace[first + k])
            /\ frames # <<>> => heap[id].type = "Exception"

(***************************************************************************)
(* C9: output order.  The output of scanLogContent lists the issues in the *)
(* order in which their terminating lines were observed: of two emitted    *)
(* issues the one whose closing line has the smaller index comes first;    *)
(* issues are only ever appended to the output, and what a call returned   *)
(* is never changed.                                                       *)
(***************************************************************************)
\* the index of the line that closed an emitted issue
C9_ClosingIdx(id) == Last(received[id]).idx

C9_Ordered(out) ==
    \A k, l \in 1..Len(out) : k < l => C9_ClosingIdx(out[k]) < C9_ClosingIdx(out[l])

C9_InCompletionOrder ==
    /\ C9_Ordered(issues)
    /\ \A t \in 1..Len(returned) : C9_Ordered(returned[t])

C9_AppendOnly ==
    /\ (pc = "loop" /\ pc' = "loop") =>
          /\ Len(issues') >= Len(issues)
          /\ SubSeq(issues', 1, Len(issues)) = issues
    /\ Len(returned') >= Len(returned)
    /\ SubSeq(returned', 1, Len(returned)) = returned

C9_OutputOrder ==
    /\ []C9_InCompletionOrder
    /\ [][C9_AppendOnly]_vars

\* a call returned two issues
C9_Witness ==
    /\ pc = "idle"
    /\ \E t \in 1..Len(returned) :
          /\ Len(returned[t]) = 2
          /\ C9_ClosingIdx(returned[t][1]) < C9_ClosingIdx(returned[t][2])

(***************************************************************************)
(* C10: detector reuse.  After pickIssue the same detector instance        *)
(* activates on the next start line and produces a new issue with a        *)
(* different identity; the rawLogs and stackTrace of the new issue hold    *)
(* only lines the detector received after the drain, each at most once and *)
(* in the order received, and its type is upgraded only by its own lines.  *)
(***************************************************************************)
\* position a is not after position b
C10_PosLE(a, b) ==
    a.scan < b.scan \/ (a.scan = b.scan /\ a.idx <= b.idx)

C10_PosLT(a, b) ==
    a.scan < b.scan \/ (a.scan = b.scan /\ a.idx < b.idx)

\* issue b was created after issue b - 1 was drained: it holds nothing of it
C10_Independent(b) ==
    /\ \A a \in 1..(b - 1) : heap[a].id # heap[b].id
    /\ b > 1 => /\ (b - 1) \in Emitted
                /\ C10_PosLE(Last(received[b - 1]), received[b][1])
    /\ \A k \in 1..Len(heap[b].rawLogs) :
          \E j \in 1..Len(received[b]) :
              received[b][j] = [scan |-> rawFrom[b][k].scan, idx |-> rawFrom[b][k].idx,
                                line |-> heap[b].rawLogs[k]]
    /\ \A k \in 1..(Len(rawFrom[b]) - 1) : C10_PosLT(rawFrom[b][k], rawFrom[b][k + 1])
    /\ Len(heap[b].stackTrace) = C8_OpeningEntries(b) + Len(C8_FrameLines(b))
    /\ C8_OpeningEntries(b) = 1 =>
          IsSuffix(heap[b].stackTrace[1], received[b][1].line)
    /\ \A k \in 1..Len(C8_FrameLines(b)) :
          IsSuffix(heap[b].stackTrace[C8_OpeningEntries(b) + k], C8_FrameLines(b)[k].line)
    /\ heap[b].type =
          IF C8_OpeningEntries(b) + Len(C8_FrameLines(b)) > 0 THEN "Exception" ELSE "Error"

C10_IssuesIndependent ==
    \A b \in 1..Len(heap) : C10_Independent(b)

\* detector d has handed over an issue before
C10_Drained(d) ==
    \E id \in Emitted : owner[id] = d

\* a drained detector is offered a start line by the probe
C10_Reactivation ==
    \A d \in 1..Len(issueDetectors) :
        ( /\ pc = "loop"
          /\ i < Len(lines)
          /\ activatedIssueDetector = Null
          /\ C10_Drained(d)
          /\ IsStartLine(lines[i + 1]) ) =>
            /\ activatedIssueDetector' = d
            /\ Len(heap') = Len(heap) + 1
            /\ issueDetectors'[d] = [state |-> "Activated", issue |-> Len(heap')]
            /\ owner'[Len(heap')] = d
            /\ heap'[Len(heap')].rawLogs = <<lines[i + 1]>>

C10_DetectorReuse ==
    /\ []C10_IssuesIndependent
    /\ [][C10_Reactivation]_vars

\* the detector emitted an upgraded issue with a stack entry and then a second,
\* plain issue
C10_Witness ==
    /\ Len(heap) >= 2
    /\ {1, 2} \subseteq Emitted
    /\ owner[1] = owner[2]
    /\ heap[1].type = "Exception" /\ heap[1].stackTrace # <<>>
    /\ heap[2].type = "Error" /\ heap[2].stackTrace = <<>>
    /\ Len(received[2]) = 2

(***************************************************************************)
(* C11: pickIssue on a detector that owns an issue returns that issue,     *)
(* leaves the detector owning no issue and in state None, and changes no   *)
(* Issue object; a second pickIssue with no activation in between fails.   *)
(***************************************************************************)
\* the step is a pickIssue call of the direct caller
C11_PickStep ==
    lastCall'.op = "pickIssue" /\ lastCall'.pre = issueDetectors[1]

C11_PickOwned ==
    (C11_PickStep /\ issueDetectors[1].issue # NoIssue) =>
        /\ ~lastCall'.threw
        /\ lastCall'.issue = issueDetectors[1].issue
        /\ issueDetectors'[1].issue = NoIssue
        /\ getState(issueDetectors'[1]) = "None"
        /\ heap' = heap

\* the previous call was a pickIssue, or a receiveLine that did not activate a
\* detector owning nothing
C11_NoActivationSincePick ==
    \/ lastCall.op = "pickIssue"
    \/ /\ lastCall.op = "receiveLine"
       /\ lastCall.pre.issue = NoIssue
       /\ lastCall.ret = "None"

C11_SecondPickFails ==
    (C11_PickStep /\ C11_NoActivationSincePick) => lastCall'.threw

C11_PickIssueEffect ==
    [][C11_PickOwned /\ C11_SecondPickFails]_vars

\* a pickIssue has failed on a detector that handed an issue over before
C11_Witness ==
    /\ lastCall.op = "pickIssue"
    /\ lastCall.threw
    /\ Len(heap) >= 1

(***************************************************************************)
(* C12: pickIssue fails exactly when the detector owns no issue, that is   *)
(* before its first activation or after a previous pickIssue drained it;   *)
(* a failing call leaves the state and the owned issue of the detector     *)
(* unchanged.                                                              *)
(***************************************************************************)
C12_FailsIffNoIssue ==
    C11_PickStep =>
        /\ lastCall'.threw <=> issueDetectors[1].issue = NoIssue
        /\ lastCall'.threw => /\ issueDetectors' = issueDetectors
                              /\ heap' = heap

\* ownership: nothing is owned before the first activation and after a drain;
\* an activation makes the detector own the newest issue
C12_Ownership ==
    /\ heap = <<>> => issueDetectors[1].issue = NoIssue
    /\ (lastCall.op = "pickIssue" /\ ~lastCall.threw) => issueDetectors[1].issue = NoIssue
    /\ (lastCall.op = "receiveLine" /\ lastCall.pre.issue = NoIssue) =>
          (issueDetectors[1].issue # NoIssue <=> lastCall.ret = "Activated")
    /\ issueDetectors[1].issue # NoIssue => issueDetectors[1].issue = Len(heap)

C12_PickIssueFailure ==
    /\ []C12_Ownership
    /\ [][C12_FailsIffNoIssue]_vars

\* pickIssue failed before the first activation
C12_Witness ==
    /\ lastCall.op = "pickIssue"
    /\ lastCall.threw
    /\ heap = <<>>
    /\ linesFed >= 1

(***************************************************************************)
(* C13: first-match-wins arbitration.  When no detector is active the      *)
(* current line is offered to the detectors in registration order: the     *)
(* first detector that returns Activated is bound and no later detector    *)
(* receives the line (its state is untouched and one issue is created);    *)
(* if none returns Activated the line is discarded and the output, the     *)
(* slot, the issues and every detector are unchanged.                      *)
(***************************************************************************)
\* the iteration about to run is a registry probe
C13_ProbeHere ==
    /\ pc = "loop"
    /\ i < Len(lines)
    /\ activatedIssueDetector = Null

\* the detectors that would return Activated for the current line
C13_Activators ==
    {k \in 1..Len(issueDetectors) :
        receiveLine(issueDetectors[k], heap, lines[i + 1]).ret = "Activated"}

C13_FirstActivator ==
    CHOOSE k \in C13_Activators : \A j \in C13_Activators : k <= j

C13_Discarded ==
    (C13_ProbeHere /\ C13_Activators = {}) =>
        /\ issues' = issues
        /\ returned' = returned
        /\ activatedIssueDetector' = Null
        /\ issueDetectors' = issueDetectors
        /\ heap' = heap
        /\ i' = i + 1

C13_FirstWins ==
    (C13_ProbeHere /\ C13_Activators # {}) =>
        /\ activatedIssueDetector' = C13_FirstActivator
        /\ getState(issueDetectors'[C13_FirstActivator]) = "Activated"
        /\ \A k \in 1..Len(issueDetectors) :
              k # C13_FirstActivator => issueDetectors'[k] = issueDetectors[k]
        /\ Len(heap') = Len(heap) + 1
        /\ owner'[Len(heap')] = C13_FirstActivator
        /\ issues' = issues
        /\ i' = i + 1

C13_Arbitration ==
    [][C13_Discarded /\ C13_FirstWins]_vars

\* in a registry of two the first detector is bound and the second is untouched
C13_Witness ==
    /\ pc = "loop"
    /\ Len(issueDetectors) = 2
    /\ activatedIssueDetector = 1
    /\ issueDetectors[2] = NewDetector
    /\ Len(heap) = 1

(***************************************************************************)
(* C14: start-marker activation.  receiveLine of a detector in state None  *)
(* returns Activated, creates a new issue and appends the line as its      *)
(* first raw line on every line that contains the start keyword at any     *)
(* position, position 0 included; on every other line it returns None and  *)
(* the detector still owns no issue.                                       *)
(***************************************************************************)
C14_IdleCall ==
    /\ lastCall.op = "receiveLine"
    /\ lastCall.pre.state = "None"

C14_HasKeyword == IndexOf(lastCall.line, PUERTS_ERROR_KEYWORD) >= 0

C14_StartMarkerActivation ==
    C14_IdleCall =>
        IF C14_HasKeyword
        THEN /\ lastCall.ret = "Activated"
             /\ issueDetectors[1].issue = Len(heap)
             /\ issueDetectors[1].issue # lastCall.pre.issue
             /\ heap[Len(heap)].rawLogs = <<lastCall.line>>
        ELSE /\ lastCall.ret = "None"
             /\ issueDetectors[1].issue = NoIssue

(***************************************************************************)
(* C15: when an activated detector receives a line matching its end        *)
(* marker, the line is appended to the raw lines, receiveLine returns      *)
(* Finished, getState reports Finished, and the issue stays owned by the   *)
(* detector until pickIssue is called.                                     *)
(***************************************************************************)
C15_EndCall ==
    /\ lastCall.op = "receiveLine"
    /\ lastCall.pre.state = "Activated"
    /\ isLogIndicateFinished(lastCall.line)

C15_FinishedTransition ==
    C15_EndCall =>
        /\ lastCall.ret = "Finished"
        /\ issueDetectors[1].issue = lastCall.pre.issue
        /\ issueDetectors[1].issue # NoIssue
        /\ Last(heap[issueDetectors[1].issue].rawLogs) = lastCall.line
        /\ getState(issueDetectors[1]) = "Finished"

(***************************************************************************)
(* C16: the severity of an issue is fixed at creation from its initial     *)
(* type (Crash to critical, Exception to high, Error to medium) and is     *)
(* never recomputed: an issue created as Error and later set to Exception  *)
(* still has severity medium when it is emitted.                           *)
(***************************************************************************)
C16_Table ==
    /\ getSeverityFromType("Crash") = "critical"
    /\ getSeverityFromType("Exception") = "high"
    /\ getSeverityFromType("Error") = "medium"

\* every issue of the detector is created as Error
C16_CreatedAsError ==
    \A id \in 1..Len(heap) :
        /\ heap[id].severity = "medium"
        /\ heap[id].type \in {"Error", "Exception"}
        /\ heap[id].type = "Exception" <=> heap[id].typeSets > 0

C16_SeverityKept ==
    \A id \in 1..Len(heap) : heap'[id].severity = heap[id].severity

C16_NewIssueSeverity ==
    \A id \in (Len(heap) + 1)..Len(heap') :
        heap'[id].severity = "medium"

C17_SameContent(a, b) ==
    /\ a.id = b.id
    /\ a.type = b.type
    /\ a.message = b.message
    /\ a.rawLogs = b.rawLogs
    /\ a.stackTrace = b.stackTrace
    /\ a.severity = b.severity

C17_EmittedKept ==
    \A id \in Emitted : C17_SameContent(heap'[id], heap[id])

\* an emitted issue is owned by no detector any more
C17_EmittedNotOwned ==
    \A k \in 1..Len(issueDetectors) : issueDetectors[k].issue \notin Emitted

C17_NoMutationAfterHandOff ==
    /\ []C17_EmittedNotOwned
    /\ [][C17_EmittedKept]_vars

\* an issue of the first scan was emitted and a later issue, not yet emitted,
\* has since received its opening line and a stack line
C17_Witness ==
    /\ Len(returned) >= 1
    /\ returned[1] # <<>>
    /\ \E id \in 1..Len(heap) :
          /\ id \notin Emitted
          /\ id > returned[1][1]
          /\ Len(heap[id].rawLogs) >= 1
          /\ Len(heap[id].stackTrace) >= 1

(***************************************************************************)
(* C18: scan determinism.  Two scans of the same line sequence, each run   *)
(* on a newly constructed scanner and registry, return issue sequences     *)
(* equal in length and, position by position, in type, message, severity,  *)
(* raw lines and stack lines (ids excepted): no state of one scan          *)
(* influences the other.                                                   *)
(***************************************************************************)
C18_SameButId(a, b) ==
    /\ a.type = b.type
    /\ a.message = b.message
    /\ a.severity = b.severity
    /\ a.rawLogs = b.rawLogs
    /\ a.stackTrace = b.stackTrace

C18_SameOutput(s, t) ==
    /\ Len(returned[s]) = Len(returned[t])
    /\ \A k \in 1..Len(returned[s]) :
          C18_SameButId(heap[returned[s][k]], heap[returned[t][k]])

C18_ScanDeterminism ==
    \A s, t \in 1..Len(returned) :
        scanned[s] = scanned[t] => C18_SameOutput(s, t)

\* two finished scans of the same lines returned one issue each, two objects
C18_Witness ==
    /\ Len(returned) = 2
    /\ scanned[1] = scanned[2]
    /\ Len(returned[1]) >= 1
    /\ Len(returned[2]) >= 1
    /\ returned[1][1] # returned[2][1]

(***************************************************************************)
(* C19: during any sequence of scanLogContent calls on one scanner,        *)
(* pickIssue is called only on the bound detector immediately after its    *)
(* receiveLine returned Finished, so the "issue not exist" error of        *)
(* pickIssue is unreachable from the scanner.                              *)
(***************************************************************************)
\* the detector as receiveLine leaves it in the iteration about to run
C19_AfterReceive ==
    receiveLine(issueDetectors[activatedIssueDetector], heap, lines[i + 1]).det

\* where the scanner calls pickIssue, the call succeeds
C19_PickSucceeds ==
    C3_FinishedHere => ~pickIssue(C19_AfterReceive).threw

\* the bound detector owns an issue
C19_BoundOwns ==
    activatedIssueDetector # Null =>
        issueDetectors[activatedIssueDetector].issue # NoIssue

\* a detector is drained only where the scanner calls pickIssue, and it is the
\* bound detector, whose issue goes to the output
C19_DrainedOnlyWhenFinished ==
    \A k \in 1..Len(issueDetectors) :
        (issueDetectors[k].issue # NoIssue /\ issueDetectors'[k].issue = NoIssue) =>
            /\ C3_FinishedHere
            /\ k = activatedIssueDetector
            /\ issues' = Append(issues, issueDetectors[k].issue)

C19_NoActiveIssueUnreachable ==
    /\ [](pc # "raised" /\ C19_BoundOwns)
    /\ [][C19_PickSucceeds /\ C19_DrainedOnlyWhenFinished]_vars

\* in a later call on the same scanner an issue was picked and every detector
\* is drained
C19_Witness ==
    /\ Len(returned) >= 1
    /\ pc = "loop"
    /\ Len(issues) >= 1
    /\ \A k \in 1..Len(issueDetectors) : issueDetectors[k].issue = NoIssue

(***************************************************************************)
(* C20: the type upgrade is applied at most once to any single issue, even *)
(* when the issue receives several stack-frame lines: setIssueType is      *)
(* invoked at most once per issue, the type only ever changes from Error   *)
(* to Exception, and it never changes back.                                *)
(***************************************************************************)
C20_InvokedAtMostOnce ==
    \A id \in 1..Len(heap) : heap[id].typeSets <= 1

C20_OnlyErrorToException ==
    \A id \in 1..Len(heap) :
        heap'[id].type # heap[id].type =>
            heap[id].type = "Error" /\ heap'[id].type = "Exception"

C20_UpgradeAtMostOnce ==
    /\ []C20_InvokedAtMostOnce
    /\ [][C20_OnlyErrorToException]_vars

(***************************************************************************)
(* C21: cursor rule.  The cursor stays on the same line only when the      *)
(* active detector returned Finished and advances by exactly one line in   *)
(* every other case; so every line is processed at most twice, and twice   *)
(* only if it terminated an issue.                                         *)
(***************************************************************************)
C21_InLoop ==
    pc = "loop" /\ i < Len(lines)

C21_CursorStep ==
    C21_InLoop => i' = (IF C3_FinishedHere THEN i ELSE i + 1)

\* the receptions of the line under the cursor by a detector, in this call
C21_ReceptionsHere ==
    {<<id, k>> \in (1..Len(heap)) \X (1..MaxTotalLines + 1) :
        /\ k <= Len(received[id])
        /\ received[id][k].scan = ScanNo
        /\ received[id][k].idx = i}

\* a line under the cursor was processed before only once, and it closed the
\* last emitted issue; the slot is empty, so this second pass advances
C21_SecondPassOnlyAfterFinished ==
    (C21_InLoop /\ C21_ReceptionsHere # {}) =>
        /\ activatedIssueDetector = Null
        /\ issues # <<>>
        /\ C21_ReceptionsHere = {<<Last(issues), Len(received[Last(issues)])>>}
        /\ ~C3_FinishedHere

C21_CursorRule ==
    /\ []C21_SecondPassOnlyAfterFinished
    /\ [][C21_CursorStep]_vars

\* the second line of a call closed an issue and is about to be processed again
C21_Witness ==
    /\ C21_InLoop
    /\ i >= 1
    /\ C21_ReceptionsHere # {}

(***************************************************************************)
(* C22: for a fresh scanner with the shipped detector and a single         *)
(* scanLogContent call, if N lines of the input match the start test of    *)
(* the detector then exactly max(0, N - 1) issues are returned: the first  *)
(* matching line only opens a block and every later matching line closes   *)
(* one block and opens the next.                                           *)
(***************************************************************************)
C22_StartLines(ls) ==
    {k \in 1..Len(ls) : IsStartLine(ls[k])}

C22_Expected(ls) ==
    IF C22_StartLines(ls) = {} THEN 0 ELSE Cardinality(C22_StartLines(ls)) - 1

\* issue k of the output was opened by the k-th matching line and closed by the
\* next one
C22_BlockOf(ls, out, k) ==
    LET starts == C22_StartLines(ls)
        opening == CHOOSE a \in starts : Cardinality({b \in starts : b < a}) = k - 1
        closing == CHOOSE a \in starts : Cardinality({b \in starts : b < a}) = k
    IN  /\ heap[out[k]].rawLogs = <<ls[opening], ls[closing]>>

C22_IssueCount ==
    \A s \in 1..Len(returned) :
        /\ Len(returned[s]) = C22_Expected(scanned[s])
        /\ \A k \in 1..Len(returned[s]) : C22_BlockOf(scanned[s], returned[s], k)

\* a call on three matching lines returned two issues
C22_Witness ==
    /\ Len(returned) >= 1
    /\ Cardinality(C22_StartLines(scanned[1])) = 3
    /\ Len(returned[1]) = 2

(***************************************************************************)
(* C23: slot/state coupling.  At every loop-iteration boundary of          *)
(* scanLogContent and between calls on the same scanner, the slot refers   *)
(* to detector d if and only if the state of d is Activated, a detector    *)
(* owns an issue if and only if its state is Activated, and every detector *)
(* not in the slot is in state None and owns no issue.                     *)
(***************************************************************************)
C23_Coupled(k) ==
    /\ activatedIssueDetector = k <=> getState(issueDetectors[k]) = "Activated"
    /\ issueDetectors[k].issue # NoIssue <=> getState(issueDetectors[k]) = "Activated"
    /\ activatedIssueDetector # k =>
          /\ getState(issueDetectors[k]) = "None"
          /\ issueDetectors[k].issue = NoIssue

C23_SlotStateCoupling ==
    /\ activatedIssueDetector \in {Null} \cup (1..Len(issueDetectors))
    /\ \A k \in 1..Len(issueDetectors) : C23_Coupled(k)

\* between two calls the first of two detectors is bound and owns an issue
C23_Witness ==
    /\ pc = "idle"
    /\ Len(returned) = 1
    /\ Len(issueDetectors) = 2
    /\ activatedIssueDetector = 1
    /\ C23_Coupled(1)
    /\ C23_Coupled(2)

(***************************************************************************)
(* C24: the closing line of each emitted issue, the last element of its    *)
(* raw lines, is the same physical line as the opening line of the next    *)
(* issue opened by the scan, the first element of the raw lines of that    *)
(* issue: the line is recorded in both issues.                             *)
(***************************************************************************)
\* the issue was just emitted and its closing line is about to be offered again
C24_ReplayPendingFor(id) ==
    /\ C3_ReplayPending
    /\ id = Last(issues)
    /\ id = Len(heap)

\* the issue created next opened on the line that closed this one
C24_SharedWithNext(id) ==
    /\ id + 1 <= Len(heap)
    /\ Len(rawFrom[id + 1]) >= 1
    /\ rawFrom[id + 1][1] = Last(rawFrom[id])
    /\ heap[id + 1].rawLogs[1] = Last(heap[id].rawLogs)

C24_ClosingLineShared ==
    \A id \in Emitted :
        /\ Len(heap[id].rawLogs) >= 2
        /\ C24_ReplayPendingFor(id) \/ C24_SharedWithNext(id)

\* two issues were emitted in one call and a third one is open: each closing
\* line is the opening line of the next issue
C24_Witness ==
    /\ Len(issues) = 2
    /\ Len(heap) = issues[2] + 1
    /\ C24_SharedWithNext(issues[1])
    /\ C24_SharedWithNext(issues[2])

(***************************************************************************)
(* C25: scanLogFile never raises: it returns an empty sequence when the    *)
(* file does not exist or when reading or scanning throws, and otherwise   *)
(* returns the issues of scanLogContent with the source of every issue set *)
(* to the normalized path of the file whose lines the issue was built      *)
(* from.                                                                   *)
(***************************************************************************)
\* the normalized paths of the files that supplied the raw lines of an issue
C25_BuiltFrom(id) ==
    {Normalize(files[rawFrom[id][k].scan]) : k \in 1..Len(rawFrom[id])}

C25_Stamped(s) ==
    \A k \in 1..Len(returned[s]) :
        /\ heap[returned[s][k]].source = Normalize(files[s])
        /\ C25_BuiltFrom(returned[s][k]) = {heap[returned[s][k]].source}

C25_ScanLogFile ==
    /\ pc # "raised"
    /\ \A s \in 1..Len(returned) :
          /\ FileAt(Normalize(files[s])).kind # "file" => returned[s] = <<>>
          /\ C25_Stamped(s)

(***************************************************************************)
(* C26: resolveIssue never rejects: when source lookup, generation or      *)
(* parsing fails it returns a fallback Solution for the id of the issue    *)
(* with confidence 0.1, and a failure of the resolution collaborator never *)
(* changes the issue sequence produced by the scan.                        *)
(***************************************************************************)
\* the last call was a resolveIssue that went past the cache
C26_Resolved ==
    /\ lastCall.op \in {"resolveIssue", "batchStep"}
    /\ ~lastCall.hit

\* the source lookup threw, the LLM request did not yield a completion, or the
\* text could not be parsed
C26_CollaboratorFailed ==
    \/ lastCall.finder = "throws"
    \/ lastCall.llm \in {"apiError", "badShape", "noContent"}

C26_IsFallbackFor(solution, id) ==
    /\ solution.issueId = heap[id].id
    /\ solution.confidence = "0.1"

C26_FallbackOnFailure ==
    /\ (C26_Resolved /\ C26_CollaboratorFailed) =>
          C26_IsFallbackFor(lastCall.solution, lastCall.issue)
    /\ returned = <<<<1, 2>>>>
    /\ heap = ScannedHeap

(***************************************************************************)
(* C27: resolver caching.  After resolveIssue has produced a Solution for  *)
(* an issue id, normal or fallback, every later resolveIssue for an issue  *)
(* with that id returns the same Solution without calling the source       *)
(* finder or the LLM again; batchResolveIssues returns exactly one         *)
(* Solution per input issue, in input order, with solutions[k].issueId     *)
(* equal to issues[k].id.                                                  *)
(***************************************************************************)
\* the step is a resolveIssue, direct or inside a batch
C27_ResolveStep ==
    /\ lastCall'.calls = lastCall.calls + 1
    /\ lastCall'.op \in {"resolveIssue", "batchStep"}

\* what a resolveIssue produces is what the Map holds for the id afterwards
C27_Stored ==
    C27_ResolveStep =>
        /\ heap[lastCall'.issue].id \in DOMAIN solutions'
        /\ solutions'[heap[lastCall'.issue].id] = lastCall'.solution
        /\ lastCall'.solution.issueId = heap[lastCall'.issue].id

\* a later call for the id returns the stored object and calls nothing
C27_CacheHit ==
    (C27_ResolveStep /\ heap[lastCall'.issue].id \in DOMAIN solutions) =>
        /\ lastCall'.solution = solutions[heap[lastCall'.issue].id]
        /\ lastCall'.finderCalls = lastCall.finderCalls
        /\ lastCall'.llmCalls = lastCall.llmCalls
        /\ lastCall'.created = lastCall.created
        /\ solutions' = solutions

\* the array of a batch, as far as the loop has come and when it is returned
C27_BatchArray ==
    pc = "batch" \/ lastCall.op = "batchReturn" =>
        /\ Len(lastCall.batch) = (IF pc = "batch" THEN i ELSE Len(issues))
        /\ \A k \in 1..Len(lastCall.batch) :
              /\ lastCall.batch[k].issueId = heap[issues[k]].id
              /\ lastCall.batch[k] = solutions[heap[issues[k]].id]

C27_ResolverCaching ==
    /\ []C27_BatchArray
    /\ [][C27_Stored /\ C27_CacheHit]_vars

\* a batch with the same issue twice has returned the fallback Solution of the
\* first resolution for both
C27_Witness ==
    /\ lastCall.op = "batchReturn"
    /\ Len(issues) >= 2
    /\ issues[1] = issues[2]
    /\ lastCall.batch[1] = lastCall.batch[2]
    /\ lastCall.batch[1].confidence = "0.1"

(***************************************************************************)
(* C28: report join.  generateReport pairs every issue, in input order,    *)
(* with the first Solution whose issueId equals the id of the issue, or    *)
(* with no solution when none matches; no issue is dropped or duplicated   *)
(* and no issue is paired with a Solution of a different id.               *)
(***************************************************************************)
\* the positions of the solutions for an issue
C28_Matches(id) ==
    {k \in 1..Len(report.solutions) : report.solutions[k].issueId = heap[id].id}

C28_Paired(k) ==
    LET pair == report.issuesWithSolutions[k]
        matches == C28_Matches(report.issues[k])
    IN  /\ pair.issue = report.issues[k]
        /\ matches = {} => pair.solution = NullSolution
        /\ matches # {} =>
              /\ pair.solution \in {report.solutions[m] : m \in matches}
              /\ \A m \in matches : pair.solution.obj <= report.solutions[m].obj
              /\ pair.solution.issueId = heap[pair.issue].id

C28_ReportJoin ==
    report.done =>
        /\ Len(report.issuesWithSolutions) = Len(report.issues)
        /\ \A k \in 1..Len(report.issues) : C28_Paired(k)

\* a report of two issues: the first has two solutions and got the first of
\* them, the second has none
C28_Witness ==
    /\ report.done
    /\ Len(report.issues) = 2
    /\ Cardinality(C28_Matches(report.issues[1])) = 2
    /\ C28_Matches(report.issues[2]) = {}
    /\ report.issuesWithSolutions[1].solution = report.solutions[1]
    /\ report.issuesWithSolutions[2].solution = NullSolution

(***************************************************************************)
(* C29: ConfigManager lifecycle.  The three getters and saveConfig throw   *)
(* "Config not loaded" in every state before loadConfig has completed;     *)
(* loadConfig never rejects and always leaves a non-null config, the       *)
(* content of the file or the default config when reading or parsing       *)
(* fails, after which the three getters never throw.                       *)
(***************************************************************************)
C29_Getters ==
    {"getLogScannerConfig", "getProblemResolverConfig", "getReportGeneratorConfig"}

C29_BeforeLoad ==
    (returned = <<>> /\ lastCall.op \in C29_Getters \cup {"saveConfig"}) =>
        /\ lastCall.threw
        /\ config = JNull

C29_AfterLoad ==
    returned # <<>> =>
        /\ config # JNull
        /\ config = Last(returned)
        /\ lastCall.op = "loadConfig" => ~lastCall.threw
        /\ lastCall.op \in C29_Getters => ~lastCall.threw

C29_Lifecycle ==
    C29_BeforeLoad /\ C29_AfterLoad

(***************************************************************************)
(* C30: the message of an issue is set once, at creation, to the suffix of *)
(* the triggering line starting at a fixed offset after the start keyword  *)
(* (keyword position + keyword length + pointer-token length + 2); it is   *)
(* the empty string when the line is shorter than that offset, and it is   *)
(* never changed by later lines.                                           *)
(***************************************************************************)
\* the line that opened the issue
C30_TriggeringLine(id) == received[id][1].line

C30_Offset(line) ==
    IndexOf(line, PUERTS_ERROR_KEYWORD) + Len(PUERTS_ERROR_KEYWORD)
        + Len(PUERTS_DEMO_PTR) + 2

C30_Suffix(line) ==
    IF Len(line) <= C30_Offset(line)
    THEN <<>>
    ELSE [k \in 1..(Len(line) - C30_Offset(line)) |-> line[C30_Offset(line) + k]]

C30_MessageIsSuffix ==
    \A id \in 1..Len(heap) : heap[id].message = C30_Suffix(C30_TriggeringLine(id))

C30_MessageKept ==
    \A id \in 1..Len(heap) : heap'[id].message = heap[id].message

C30_MessageSetOnce ==
    /\ []C30_MessageIsSuffix
    /\ [][C30_MessageKept]_vars

\* an emitted issue kept the empty message of a short triggering line and one
\* that opened later has the two characters after the offset as message
C30_Witness ==
    /\ \E id \in Emitted :
          /\ heap[id].message = <<>>
          /\ Len(received[id]) >= 2
    /\ \E id \in 1..Len(heap) : Len(heap[id].message) = 2

====
